---- MODULE Spec2Model ----
(***************************************************************************)
(* git-xargs: ProcessRepos fans the per-repository pipeline (ProcessRepo,  *)
(* then UpdateRepoRemote) out over goroutines bounded by a                 *)
(* sizedwaitgroup, and collects the results in a shared slice.             *)
(*                                                                         *)
(* Reading of the source.  ProcessRepo is declared to return               *)
(* a repository pointer and an error, while its only call site binds the   *)
(* pair as "processLocalErr, gxargsrepo := ProcessRepo".  The model binds  *)
(* the two values by their names and uses: processLocalErr is the error,   *)
(* gxargsrepo is the repository value.                                     *)
(*                                                                         *)
(* The step functions (cloneLocalRepository, getLocalRepoHeadRef,          *)
(* getLocalWorkTree, checkoutLocalBranch, executeCommand, UpdateRepoLocal, *)
(* UpdateRepoRemote) are called from the source but their bodies are not   *)
(* part of it: whether a step fails is a choice of the environment, and    *)
(* what UpdateRepoLocal / UpdateRepoRemote do inside follows the written   *)
(* step contracts (stage, commit, push, pull request).                     *)
(***************************************************************************)
EXTENDS Integers, Sequences, FiniteSets, TLC

\* ---------------------------------------------------------------- bounds
MaxRepos == 2          \* len(repos) ranges over 0..MaxRepos
MaxLimit == 2          \* MaxConcurrentRepos ranges over 0..MaxLimit

\* sizedwaitgroup.New: a limit <= 0 falls back to math.MaxInt32 slots
MaxInt32 == 2147483647

Nil == "nil"

VARIABLES
    config,                 \* *config.GitXargsConfig: read-only during the run
    repos,                  \* len(repos): the repositories are 1..repos
    pcMain,                 \* position of ProcessRepos: "loop", "wait", "returned"
    idx,                    \* the range loop's next repository
    wg,                     \* the sizedwaitgroup
    pc,                     \* position of each repository's goroutine
    gx,                     \* the *GitXargsRepository built by ProcessRepo
    loc,                    \* ProcessRepo's locals repositoryDir, localRepository
    localRet,               \* the error ProcessRepo returned, "none" before it returns
    taskErr,                \* the goroutine's return value (dropped by "go")
    executed,               \* history: the steps run for each repository, in order
    failed,                 \* history: the steps that failed for each repository
    world,                  \* effects on the clone and the remote host
    stats,                  \* config.Stats: outcomes tracked for each repository
    tmp,                    \* the slice value read by append, before it is stored back
    gitXargsRepositories,   \* the shared result slice
    returned                \* ProcessRepos' return value, set when pcMain = "returned"

vars == <<config, repos, pcMain, idx, wg, pc, gx, loc, localRet, taskErr,
          executed, failed, world, stats, tmp, gitXargsRepositories, returned>>

AllRepos == 1..MaxRepos
Repos == 1..repos

\* ------------------------------------------------- sizedwaitgroup (library)
\* variant: New without the fallback, a limit of 0 gives no slot at all
SwgNewNoFallback(limit) == [size |-> limit, current |-> 0, count |-> 0]

SwgNew(limit) ==
    [size |-> IF limit <= 0 THEN MaxInt32 ELSE limit, current |-> 0, count |-> 0]

\* variant: Add never waits for a slot
SwgAddNeverBlocks(s) == TRUE

\* Add blocks while the channel of slots is full
SwgAddEnabled(s) == s.current < s.size

SwgAdd(s) == [s EXCEPT !.current = @ + 1, !.count = @ + 1]

\* variant: wg.Done() gives nothing back
SwgDoneNoRelease(s) == s

\* wg.Done(): the slot is given back and the task is counted out
SwgDone(s) == [s EXCEPT !.current = @ - 1, !.count = @ - 1]

\* variant: Wait returns at once
SwgWaitNeverBlocks(s) == TRUE

\* Wait blocks until the WaitGroup counter is zero
SwgWaitEnabled(s) == s.count = 0

\* ------------------------------------------------------------ data model
\* the GitXargsRepository literal of ProcessRepo: only RepositoryRemote is set
NewGitXargsRepository(r) ==
    [RepositoryRemote |-> r, RepositoryDir |-> "", RepositoryLocal |-> Nil, Branch |-> ""]

GitXargsConfig(limit, dry, skip) ==
    [MaxConcurrentRepos |-> limit, DryRun |-> dry, SkipPullRequests |-> skip]

\* prExisting: the listing of open pull requests of the branch/base pair found one
NoWorld == [committed |-> FALSE, pushed |-> FALSE, prExisting |-> FALSE,
            prCreated |-> FALSE]

\* config.Stats: one more outcome tracked for repository r
Track(s, r, outcome) == [s EXCEPT ![r] = Append(@, outcome)]

Init ==
    /\ \E limit \in 0..MaxLimit, dry \in BOOLEAN, skip \in BOOLEAN :
          /\ config = GitXargsConfig(limit, dry, skip)
          /\ wg = SwgNew(limit)
    /\ repos \in 0..MaxRepos
    /\ pcMain = "loop"
    /\ idx = 1
    /\ pc = [r \in AllRepos |-> "idle"]
    /\ gx = [r \in AllRepos |-> NewGitXargsRepository(0)]
    /\ loc = [r \in AllRepos |-> [repositoryDir |-> "", localRepository |-> Nil]]
    /\ localRet = [r \in AllRepos |-> "none"]
    /\ taskErr = [r \in AllRepos |-> "none"]
    /\ executed = [r \in AllRepos |-> <<>>]
    /\ failed = [r \in AllRepos |-> {}]
    /\ world = [r \in AllRepos |-> NoWorld]
    /\ stats = [r \in AllRepos |-> <<>>]
    /\ tmp = [r \in AllRepos |-> <<>>]
    /\ gitXargsRepositories = <<>>
    /\ returned = [repos |-> <<>>, err |-> "none"]

\* ------------------------------------------------------------ ProcessRepos
\* variant: the goroutine reads the loop's last repository instead of its argument
GoArgLast(i, n) == n

\* the repository the goroutine works on: passed as its argument "repo"
GoArg(i, n) == i

\* the range loop: wg.Add() blocks for a slot, then the goroutine is started
Dispatch ==
    /\ pcMain = "loop"
    /\ idx <= repos
    /\ SwgAddEnabled(wg)
    /\ wg' = SwgAdd(wg)
    /\ pc' = [pc EXCEPT ![GoArg(idx, repos)] = "clone"]
    /\ idx' = idx + 1
    /\ UNCHANGED <<config, repos, pcMain, gx, loc, localRet, taskErr, executed,
                   failed, world, stats, tmp, gitXargsRepositories, returned>>

\* the aggregate error of ProcessRepos: the literal nil of its return statement
AggregateErr(errs) == Nil

\* wg.Wait(), then "return gitXargsRepositories, nil"
WaitAndReturn ==
    /\ pcMain = "loop"
    /\ idx > repos
    /\ SwgWaitEnabled(wg)
    /\ pcMain' = "returned"
    /\ returned' = [repos |-> gitXargsRepositories,
                    err |-> AggregateErr({taskErr[r] : r \in Repos})]
    /\ UNCHANGED <<config, repos, idx, wg, pc, gx, loc, localRet, taskErr, executed,
                   failed, world, stats, tmp, gitXargsRepositories>>

\* variant: wg.Done() only on the path that returns nil, not deferred
TaskExitLeaksOnError(r, e) ==
    /\ taskErr' = [taskErr EXCEPT ![r] = e]
    /\ pc' = [pc EXCEPT ![r] = "done"]
    /\ wg' = IF e = Nil THEN SwgDone(wg) ELSE wg

\* the goroutine returns e; the deferred wg.Done() releases its slot
TaskExit(r, e) ==
    /\ taskErr' = [taskErr EXCEPT ![r] = e]
    /\ pc' = [pc EXCEPT ![r] = "done"]
    /\ wg' = SwgDone(wg)

\* "if processLocalErr != nil { return processLocalErr }"
LocalFailed(processLocalErr) == processLocalErr # Nil

\* ProcessRepo returns (gxargsrepo, e) and ProcessRepos acts on e
ProcessRepoReturns(r, e, next) ==
    /\ localRet' = [localRet EXCEPT ![r] = e]
    /\ IF LocalFailed(e)
          THEN TaskExit(r, e)
          ELSE /\ pc' = [pc EXCEPT ![r] = next]
               /\ UNCHANGED <<taskErr, wg>>

\* a step of ProcessRepo went through: on to the next one
Continue(r, next) ==
    /\ pc' = [pc EXCEPT ![r] = next]
    /\ UNCHANGED <<localRet, taskErr, wg>>

\* history of the steps: those that ran, and the one that failed (if any)
Ran(r, steps, failure) ==
    /\ executed' = [executed EXCEPT ![r] = @ \o steps]
    /\ failed' = [failed EXCEPT ![r] = @ \cup failure]

Failure(step, err) == IF err # Nil THEN {step} ELSE {}

\* ------------------------------------------------------------- ProcessRepo
\* outcome of a fallible step whose body is outside the source: nil or its error
StepResults(e) == {Nil, e}

\* "if cloneErr != nil { return gxargsrepo, cloneErr }", and the like for
\* headRefErr, worktreeErr and branchErr
StepFailed(err) == err # Nil

\* cloneLocalRepository, after the GitXargsRepository literal
Clone(r) ==
    /\ pc[r] = "clone"
    /\ gx' = [gx EXCEPT ![r] = NewGitXargsRepository(r)]
    /\ \E cloneErr \in StepResults("CloneError") :
          /\ Ran(r, <<"clone">>, Failure("clone", cloneErr))
          /\ stats' = IF cloneErr # Nil THEN Track(stats, r, cloneErr) ELSE stats
          /\ loc' = IF cloneErr # Nil
                       THEN loc
                       ELSE [loc EXCEPT ![r] = [repositoryDir |-> "dir",
                                                 localRepository |-> "repo"]]
          /\ IF StepFailed(cloneErr)
                THEN ProcessRepoReturns(r, cloneErr, "done")
                ELSE Continue(r, "headRef")
    /\ UNCHANGED <<config, repos, pcMain, idx, world, tmp, gitXargsRepositories,
                   returned>>

\* a step of ProcessRepo between the clone and the command
LocalStep(r, at, err, next) ==
    /\ pc[r] = at
    /\ \E stepErr \in StepResults(err) :
          /\ Ran(r, <<at>>, Failure(at, stepErr))
          /\ stats' = IF stepErr # Nil THEN Track(stats, r, stepErr) ELSE stats
          /\ IF StepFailed(stepErr)
                THEN /\ ProcessRepoReturns(r, stepErr, "done")
                     /\ UNCHANGED gx
                ELSE /\ Continue(r, next)
                     /\ gx' = IF at = "checkout"
                                 THEN [gx EXCEPT ![r].Branch = "branch"]
                                 ELSE gx
    /\ UNCHANGED <<config, repos, pcMain, idx, loc, world, tmp,
                   gitXargsRepositories, returned>>

\* getLocalRepoHeadRef
HeadRef(r) == LocalStep(r, "headRef", "HeadRefError", "worktree")

\* getLocalWorkTree
WorkTree(r) == LocalStep(r, "worktree", "WorktreeError", "checkout")

\* checkoutLocalBranch, then gxargsrepo.Branch = branchName.String()
Checkout(r) == LocalStep(r, "checkout", "BranchCheckoutError", "command")

\* variant: commandErr is not looked at
CommandErrIgnored(commandErr) == FALSE

\* "if commandErr != nil { return gxargsrepo, commandErr }"
CommandFailed(commandErr) == commandErr # Nil

\* executeCommand
Command(r) ==
    /\ pc[r] = "command"
    /\ \E commandErr \in StepResults("CommandExecutionError") :
          /\ Ran(r, <<"command">>, Failure("command", commandErr))
          /\ stats' = IF commandErr # Nil THEN Track(stats, r, commandErr) ELSE stats
          /\ IF CommandFailed(commandErr)
                THEN ProcessRepoReturns(r, commandErr, "done")
                ELSE Continue(r, "updateLocal")
    /\ UNCHANGED <<config, repos, pcMain, idx, gx, loc, world, tmp,
                   gitXargsRepositories, returned>>

\* UpdateRepoLocal, by its step contract: the status check may fail; everything is
\* staged; a clean stage ends the local work without a commit; otherwise the
\* commit is made or fails.  steps: what ran; failed: the step that failed;
\* track: the outcome recorded.
UpdateRepoLocal ==
    { [err |-> "StagingError", steps |-> <<"stage">>, failed |-> {"stage"},
       committed |-> FALSE, track |-> <<"StagingError">>],
      [err |-> Nil, steps |-> <<"stage">>, failed |-> {},
       committed |-> FALSE, track |-> <<"NoChanges">>],
      [err |-> "CommitError", steps |-> <<"stage", "commit">>, failed |-> {"commit"},
       committed |-> FALSE, track |-> <<"CommitError">>],
      [err |-> Nil, steps |-> <<"stage", "commit">>, failed |-> {},
       committed |-> TRUE, track |-> <<>>] }

\* the error ProcessRepo returns after UpdateRepoLocal returned err:
\* "if err != nil { return gxargsrepo, nil }", and "return gxargsrepo, nil" at the end
UpdateLocalReturn(err) == Nil

\* variant: RepositoryDir and RepositoryLocal are never set
PopulateNever(g, l, err) == g

\* gxargsrepo after UpdateRepoLocal returned err: RepositoryDir and RepositoryLocal
\* are set only past the early return
Populate(g, l, err) ==
    IF err # Nil
       THEN g
       ELSE [g EXCEPT !.RepositoryDir = l.repositoryDir,
                      !.RepositoryLocal = l.localRepository]

\* UpdateRepoLocal and the rest of ProcessRepo
UpdateLocal(r) ==
    /\ pc[r] = "updateLocal"
    /\ \E res \in UpdateRepoLocal :
          /\ Ran(r, res.steps, res.failed)
          /\ stats' = [stats EXCEPT ![r] = @ \o res.track]
          /\ world' = [world EXCEPT ![r].committed = res.committed]
          /\ gx' = [gx EXCEPT ![r] = Populate(@, loc[r], res.err)]
          /\ ProcessRepoReturns(r, UpdateLocalReturn(res.err), "updateRemote")
    /\ UNCHANGED <<config, repos, pcMain, idx, loc, tmp, gitXargsRepositories,
                   returned>>

\* -------------------------------------------------------- UpdateRepoRemote
\* UpdateRepoRemote, by its step contract.  Push is skipped under dry-run; the pull
\* request is skipped under dry-run or SkipPullRequests; an open pull request of
\* the same branch/base pair is reported, not duplicated.  A repository value
\* without a local handle cannot be pushed; a branch without a new commit has
\* nothing to push or to request.
RemoteResults(dryRun, skipPullRequests, g, w) ==
    LET res(e, st, fl, pu, pre, prc, tr) ==
            [err |-> e, steps |-> st, failed |-> fl, pushed |-> pu,
             prExisting |-> pre, prCreated |-> prc, track |-> tr]
    IN  IF dryRun
           THEN { res(Nil, <<>>, {}, FALSE, FALSE, FALSE,
                      IF w.committed THEN <<"DryRun">> ELSE <<>>) }
        ELSE IF g.RepositoryLocal = Nil
           THEN { res("PushError", <<>>, {"push"}, FALSE, FALSE, FALSE,
                      <<"PushError">>) }
        ELSE IF ~w.committed
           THEN { res(Nil, <<>>, {}, FALSE, FALSE, FALSE, <<>>) }
        ELSE { res("PushError", <<"push">>, {"push"}, FALSE, FALSE, FALSE,
                   <<"PushError">>) }
             \cup
             IF skipPullRequests
                THEN { res(Nil, <<"push">>, {}, TRUE, FALSE, FALSE, <<"PushedOnly">>) }
                ELSE { res("PullRequestError", <<"push", "pr">>, {"pr"}, TRUE, pre,
                           FALSE, <<"PullRequestError">>) : pre \in BOOLEAN }
                     \cup
                     { res(Nil, <<"push", "pr">>, {}, TRUE, TRUE, FALSE,
                           <<"PullRequestAlreadyOpen">>),
                       res(Nil, <<"push", "pr">>, {}, TRUE, FALSE, TRUE,
                           <<"PullRequestOpened">>) }

\* variant: the DryRun flag is not looked at
UpdateRepoRemoteNoDryRun(cfg, g, w) == RemoteResults(FALSE, cfg.SkipPullRequests, g, w)

\* variant: no listing of the open pull requests before one is created
UpdateRepoRemoteNoListing(cfg, g, w) ==
    { IF res.prExisting /\ res.err = Nil
         THEN [res EXCEPT !.prCreated = TRUE, !.track = <<"PullRequestOpened">>]
         ELSE res : res \in RemoteResults(cfg.DryRun, cfg.SkipPullRequests, g, w) }

UpdateRepoRemote(cfg, g, w) ==
    RemoteResults(cfg.DryRun, cfg.SkipPullRequests, g, w)

\* variant: processRemoteErr is not looked at
RemoteErrIgnored(processRemoteErr) == FALSE

\* "if processRemoteErr != nil { return processRemoteErr }"
RemoteFailed(processRemoteErr) == processRemoteErr # Nil

\* processRemoteErr := UpdateRepoRemote(gitxargsConfig, gxargsrepo)
UpdateRemote(r) ==
    /\ pc[r] = "updateRemote"
    /\ \E res \in UpdateRepoRemote(config, gx[r], world[r]) :
          /\ Ran(r, <<"updateRemote">> \o res.steps, res.failed)
          /\ stats' = [stats EXCEPT ![r] = @ \o res.track]
          /\ world' = [world EXCEPT ![r].pushed = res.pushed,
                                    ![r].prExisting = res.prExisting,
                                    ![r].prCreated = res.prCreated]
          /\ IF RemoteFailed(res.err)
                THEN TaskExit(r, res.err)
                ELSE /\ pc' = [pc EXCEPT ![r] = "append"]
                     /\ UNCHANGED <<taskErr, wg>>
    /\ UNCHANGED <<config, repos, pcMain, idx, gx, loc, localRet, tmp,
                   gitXargsRepositories, returned>>

\* "gitXargsRepositories = append(gitXargsRepositories, gxargsrepo)" takes no lock:
\* the goroutine reads the slice, and later stores the extended slice back.
\* Another goroutine's store between the two is overwritten.
AppendRead(r) ==
    /\ pc[r] = "append"
    /\ tmp' = [tmp EXCEPT ![r] = gitXargsRepositories]
    /\ pc' = [pc EXCEPT ![r] = "store"]
    /\ UNCHANGED <<config, repos, pcMain, idx, wg, gx, loc, localRet, taskErr,
                   executed, failed, world, stats, gitXargsRepositories, returned>>

\* the store of the extended slice, then "return nil"
AppendStore(r) ==
    /\ pc[r] = "store"
    /\ gitXargsRepositories' = Append(tmp[r], r)
    /\ tmp' = [tmp EXCEPT ![r] = <<>>]
    /\ TaskExit(r, Nil)
    /\ UNCHANGED <<config, repos, pcMain, idx, gx, loc, localRet, executed, failed,
                   world, stats, returned>>

Task(r) ==
    \/ Clone(r)
    \/ HeadRef(r)
    \/ WorkTree(r)
    \/ Checkout(r)
    \/ Command(r)
    \/ UpdateLocal(r)
    \/ UpdateRemote(r)
    \/ AppendRead(r)
    \/ AppendStore(r)

Next ==
    \/ Dispatch
    \/ WaitAndReturn
    \/ \E r \in AllRepos : Task(r)

Spec == Init /\ [][Next]_vars

\* fair scheduling: the loop of ProcessRepos, its wg.Wait and every started
\* goroutine keep running while they can; every step function terminates
FairSpec ==
    /\ Spec
    /\ WF_vars(Dispatch)
    /\ WF_vars(WaitAndReturn)
    /\ \A r \in AllRepos : WF_vars(Task(r))

\* ------------------------------------------------------------------ claims
\* pipelines that passed wg.Add and have not reached wg.Done
Active == {r \in AllRepos : pc[r] \notin {"idle", "done"}}

InList(r, list) == \E i \in 1..Len(list) : list[i] = r

Count(r, list) == Cardinality({i \in 1..Len(list) : list[i] = r})

Ever(r, step) == InList(step, executed[r])

\* C1: with MaxConcurrentRepos = M > 0, the number of pipelines started and not
\* yet finished is at most M in every reachable state.
C1_ActiveAtMostLimit ==
    config.MaxConcurrentRepos > 0 => Cardinality(Active) <= config.MaxConcurrentRepos

\* C1 witness: the ceiling is reached while a repository still waits for its slot
C1_Witness ==
    /\ config.MaxConcurrentRepos > 0
    /\ Cardinality(Active) = config.MaxConcurrentRepos
    /\ pcMain = "loop"
    /\ idx <= repos

\* C2: when every repository's task succeeds, the returned list holds exactly one
\* entry for each input repository, under every interleaving.
C2_CompleteResults ==
    (pcMain = "returned" /\ \A r \in Repos : taskErr[r] = Nil)
        => /\ Len(returned.repos) = repos
           /\ \A r \in Repos : Count(r, returned.repos) = 1

\* C3: the returned list holds the result of every repository whose pipeline got
\* past the clone, also when a later step failed.
C3_PartialResultsReturned ==
    pcMain = "returned"
        => \A r \in Repos :
              (Ever(r, "clone") /\ "clone" \notin failed[r]) => InList(r, returned.repos)

\* C4: a failure of one repository's pipeline never keeps another one from being
\* started, from running its steps, or from completing successfully: a started
\* pipeline always has its next step enabled; slots are held by running pipelines
\* only, so a failed one holds none; at the return every repository has run; a
\* repository none of whose own steps failed ran them all and its task returned nil.
C4_FaultIsolation ==
    /\ wg.current = Cardinality(Active)
    /\ \A s \in AllRepos :
          /\ s \in Active => ENABLED Task(s)
          /\ (pcMain = "returned" /\ s \in Repos) => pc[s] = "done"
          /\ (pc[s] = "done" /\ failed[s] = {})
                => /\ taskErr[s] = Nil
                   /\ \A step \in {"clone", "headRef", "worktree", "checkout",
                                   "command", "stage", "updateRemote"} : Ever(s, step)

\* C4 witness: the run returned, one repository failed at the clone and another
\* one went through to an opened pull request
C4_Witness ==
    /\ pcMain = "returned"
    /\ \E r, s \in Repos :
          /\ taskErr[r] = "CloneError"
          /\ taskErr[s] = Nil
          /\ world[s].prCreated

\* C5: ProcessRepos returns only after every dispatched task has finished: at the
\* return no pipeline is active, and no step and no write to the result list
\* happens afterwards.
C5_ReturnsAfterAllDone ==
    /\ [](pcMain = "returned"
            => /\ Active = {}
               /\ \A r \in Repos : pc[r] = "done"
               /\ returned.repos = gitXargsRepositories)
    /\ [][pcMain = "returned"
            => UNCHANGED <<pc, executed, gitXargsRepositories, tmp, wg>>]_vars

\* C5 witness: the run returned after two tasks, one of them stored its result
C5_Witness ==
    /\ pcMain = "returned"
    /\ repos = 2
    /\ Len(returned.repos) >= 1

\* C6: when at least one repository's task fails, the error ProcessRepos returns
\* is not nil.
C6_FailureSurfaced ==
    (pcMain = "returned" /\ \E r \in Repos : taskErr[r] # Nil) => returned.err # Nil

\* C7: a failure of any step of ProcessRepo (clone, HEAD, worktree, checkout,
\* command, stage, commit) halts the pipeline and ProcessRepo returns a non-nil
\* error.
C7_StepFailureReturnsError ==
    \A r \in AllRepos :
       (localRet[r] # "none" /\ failed[r] # {})
           => /\ localRet[r] # Nil
              /\ ~Ever(r, "updateRemote")

\* C8: once the command execution failed for a repository, no staging, commit,
\* push or pull-request step is ever run for it.
C8_NothingAfterCommandFailure ==
    \A r \in AllRepos :
       "command" \in failed[r]
           => /\ \A step \in {"stage", "commit", "updateRemote", "push", "pr"} :
                    ~Ever(r, step)
              /\ world[r] = NoWorld

\* C8 witness: a repository's command failed and its task has ended
C8_Witness ==
    \E r \in Repos : "command" \in failed[r] /\ pc[r] = "done" /\ pcMain = "returned"

\* the stage of r was found empty after its command ran
StageEmpty(r) ==
    /\ Ever(r, "command") /\ "command" \notin failed[r]
    /\ Ever(r, "stage") /\ "stage" \notin failed[r]
    /\ ~Ever(r, "commit")

C10_NoCeilingAtZero ==
    (config.MaxConcurrentRepos = 0 /\ pcMain = "loop" /\ idx <= repos)
        => ENABLED Dispatch

\* C10 witness: with MaxConcurrentRepos = 0 all the repositories are active at once
C10_Witness ==
    /\ config.MaxConcurrentRepos = 0
    /\ repos = MaxRepos
    /\ Active = Repos

C12_DryRunCommitsOnly ==
    config.DryRun
        => \A r \in AllRepos :
              /\ ~world[r].pushed /\ ~world[r].prCreated
              /\ ~Ever(r, "push") /\ ~Ever(r, "pr")
              /\ (Ever(r, "commit") /\ "commit" \notin failed[r]) => world[r].committed

\* C12 witness: a dry run committed a repository's changes and ran its remote update
C12_Witness ==
    /\ config.DryRun
    /\ \E r \in Repos :
          world[r].committed /\ Ever(r, "updateRemote") /\ pc[r] = "done"

\* open pull requests of r's branch/base pair once its pipeline has listed them
OpenPullRequests(r) ==
    (IF world[r].prExisting THEN 1 ELSE 0) + (IF world[r].prCreated THEN 1 ELSE 0)

LocalSteps == {"clone", "headRef", "worktree", "checkout", "command", "stage", "commit"}

\* position of a step in the pipeline of one repository
Rank(step) ==
    CASE step = "clone" -> 1
      [] step = "headRef" -> 2
      [] step = "worktree" -> 3
      [] step = "checkout" -> 4
      [] step = "command" -> 5
      [] step = "stage" -> 6
      [] step = "commit" -> 7
      [] step = "updateRemote" -> 8
      [] step = "push" -> 9
      [] step = "pr" -> 10

\* C14: within one repository the steps run in the order clone, HEAD, worktree,
\* checkout, command, stage/commit, push/pull request, and a step starts only
\* when every step that ran before it for that repository succeeded.
C14_StrictStepOrder ==
    \A r \in AllRepos :
       \A i, j \in 1..Len(executed[r]) :
          i < j => /\ Rank(executed[r][i]) < Rank(executed[r][j])
                   /\ executed[r][i] \notin failed[r]

\* C15: UpdateRepoRemote is run for a repository only if no step of its local
\* processing (clone through commit) failed; never after a staging or commit
\* failure.
C15_RemoteOnlyAfterLocalSuccess ==
    \A r \in AllRepos :
       Ever(r, "updateRemote") => failed[r] \cap LocalSteps = {}

\* C16: every repository of the input has its pipeline started exactly once per
\* run, and no step is executed twice for the same repository.
C16_StartedOnceNoRetry ==
    \A r \in AllRepos :
       /\ \A i, j \in 1..Len(executed[r]) :
             executed[r][i] = executed[r][j] => i = j
       /\ r \notin Repos => executed[r] = <<>> /\ pc[r] = "idle"
       /\ (r \in Repos /\ idx > r) => Count("clone", executed[r]) = 1 \/ pc[r] = "clone"
       /\ (r \in Repos /\ pcMain = "returned") => Count("clone", executed[r]) = 1

\* C16 witness: a run of several repositories has returned after a failure
C16_Witness ==
    /\ pcMain = "returned"
    /\ repos >= 2
    /\ \E r \in Repos : failed[r] # {}
    /\ \E r \in Repos : failed[r] = {} /\ taskErr[r] = Nil

\* the clone of r was made
Cloned(r) == Ever(r, "clone") /\ "clone" \notin failed[r]

\* C17: the result ProcessRepo returns carries the local repository handle and the
\* working directory exactly when the clone succeeded, also when a later step
\* failed.
C17_ResultCarriesClone ==
    \A r \in AllRepos :
       localRet[r] # "none"
           => (Cloned(r) <=> (gx[r].RepositoryLocal # Nil /\ gx[r].RepositoryDir # ""))

\* C18: whenever UpdateRepoRemote is invoked, the result passed to it has
\* RepositoryDir, RepositoryLocal and Branch set.
C18_RemoteGetsPopulatedResult ==
    \A r \in AllRepos :
       (pc[r] = "updateRemote" \/ Ever(r, "updateRemote"))
           => /\ gx[r].RepositoryDir # ""
              /\ gx[r].RepositoryLocal # Nil
              /\ gx[r].Branch # ""

\* C19: under fair scheduling, with step functions that terminate, ProcessRepos
\* eventually returns, for every number of repositories and every
\* MaxConcurrentRepos: every slot taken is given back on every exit of a task.
C19_EventuallyReturns == <>(pcMain = "returned")

\* C19 witness: the run returned with one slot only, after a task ended by a local
\* failure and another by a remote failure
C19_Witness ==
    /\ pcMain = "returned"
    /\ config.MaxConcurrentRepos = 1
    /\ wg.current = 0 /\ wg.count = 0
    /\ \E r \in Repos : localRet[r] \notin {Nil, "none"}
    /\ \E r \in Repos : localRet[r] = Nil /\ taskErr[r] \notin {Nil, "none"}

\* C20: every entry of the list of ProcessRepos is a distinct input repository
\* whose ProcessRepo and UpdateRepoRemote both returned nil.
C20_ListHoldsSuccessesOnce ==
    \A i \in 1..Len(gitXargsRepositories) :
       LET r == gitXargsRepositories[i]
       IN  /\ r \in Repos
           /\ Count(r, gitXargsRepositories) = 1
           /\ localRet[r] = Nil
           /\ failed[r] \cap {"push", "pr"} = {}
           /\ pc[r] = "done" => taskErr[r] = Nil
           /\ pcMain = "returned" => returned.repos = gitXargsRepositories

\* C20 witness: the list returned has an entry and leaves out a failed repository
C20_Witness ==
    /\ pcMain = "returned"
    /\ Len(returned.repos) >= 1
    /\ \E r \in Repos : taskErr[r] \notin {Nil, "none"} /\ ~InList(r, returned.repos)

====
